---- MODULE Spec2Model ----
(***************************************************************************)
(* Model of server.js: the attendance projection arithmetic                *)
(* (calculateCurrentPercentage, classesNeededForTarget, classesToBunk),    *)
(* the Puppeteer scrape (getAttendanceData) and the POST /api/attendance   *)
(* handler.                                                                *)
(*                                                                         *)
(* JavaScript numbers are IEEE-754 binary64.  Counts are small integers    *)
(* (exact in binary64); the percentage (attended / total) * 100 is         *)
(* computed here with the two roundings the code performs, on 53-bit       *)
(* significands held in three limbs.                                       *)
(***************************************************************************)
EXTENDS Integers, Sequences, FiniteSets

VARIABLES
    req,               \* req.body: [username, password, target]
    pc,                \* position of the handler / of the function under evaluation
    browser,           \* getAttendanceData: "null" | "open" | "closed"
    page,              \* getAttendanceData: "null" | "open"
    launchCalls,       \* number of puppeteer.launch calls made for this request
    scrapedData,       \* sequence of [subject, attended, total], in insertion order
    errorMessage,      \* FALSE for null, TRUE for the error string
    targetNum,         \* handler: effective target
    idx,               \* handler: index of the entry of scrapedData being processed
    attended,          \* argument of the projection functions
    total,             \* argument of the projection functions
    targetPercentage,  \* argument of the projection functions
    classesToAttend,   \* loop counter of classesNeededForTarget
    bunkableClasses,   \* loop counter of classesToBunk
    needed,            \* value returned by classesNeededForTarget, or None
    bunks_available,   \* value returned by classesToBunk, or None
    results,           \* handler: sequence of per-subject records
    response           \* what res.status(..).json(..) sent, or None

vars == << req, pc, browser, page, launchCalls, scrapedData, errorMessage,
           targetNum, idx, attended, total, targetPercentage, classesToAttend,
           bunkableClasses, needed, bunks_available, results, response >>

\* needed / bunks_available before the function has returned (results are >= 0).
NotReturned == 0 - 1

(***************************************************************************)
(* Bounds of the model.                                                    *)
(***************************************************************************)
\* Largest class count of the enumerated attendance records.
MaxTotal == 3
\* Largest number of subjects a scraped table yields.
MaxSubjects == 2
\* Largest class count of a record of a scraped table.
MaxScrapedTotal == 1
\* How far past the returned value the maximality of classesToBunk is probed.
Lookahead == 3
\* Iterations of a search loop the model follows.  Every loop that returns
\* for the enumerated inputs returns within it (LoopsReturnWithinMaxIter).
MaxIter == 100 * (MaxTotal + 1)

(***************************************************************************)
(* IEEE-754 binary64 arithmetic on non-negative values.                    *)
(* A positive double is [hi, mid, lo, e]: its 53-bit significand is the    *)
(* integer M = hi * Limb^2 + mid * Limb + lo, with 2^12 <= hi < 2^13 and   *)
(* mid, lo < Limb = 2^20, and its value is M * 2^e.  Zero is DZero.        *)
(***************************************************************************)
Hundred == 100

RECURSIVE Pow2(_)
Pow2(n) == IF n = 0 THEN 1 ELSE 2 * Pow2(n - 1)

Limb == Pow2(20)
HiMin == Pow2(12)

DZero == [hi |-> 0, mid |-> 0, lo |-> 0, e |-> 0]

\* The only element of a one-element set.  Only({ F(v) : v \in {e} }) is
\* F(e) with e evaluated once.
Only(S) == CHOOSE x \in S : TRUE

\* The next n quotient bits of r / d (r < d), and the remainder left.
DivStep(r, d, n) == [q |-> (r * Pow2(n)) \div d, r |-> (r * Pow2(n)) % d]

\* The quotient digits of r / d, of the widths in sizes, then the remainder.
RECURSIVE DivDigits(_, _, _)
DivDigits(r, d, sizes) ==
    IF sizes = << >> THEN << r >>
    ELSE Only({ << st.q >> \o DivDigits(st.r, d, Tail(sizes)) :
                st \in { DivStep(r, d, Head(sizes)) } })

\* Round to nearest, ties to even: the significand x with the discarded part
\* comparing to one half as cmp (-1 below, 0 equal, 1 above).
RoundNearestEven(x, cmp) ==
    IF cmp > 0 \/ (cmp = 0 /\ x.lo % 2 = 1)
    THEN IF x.lo + 1 < Limb THEN [x EXCEPT !.lo = x.lo + 1]
         ELSE IF x.mid + 1 < Limb THEN [x EXCEPT !.lo = 0, !.mid = x.mid + 1]
         ELSE IF x.hi + 1 < 2 * HiMin
              THEN [x EXCEPT !.lo = 0, !.mid = 0, !.hi = x.hi + 1]
         ELSE [hi |-> HiMin, mid |-> 0, lo |-> 0, e |-> x.e + 1]
    ELSE x

\* The least s >= 0 with a * 2^s >= t.
RECURSIVE ShiftUp(_, _)
ShiftUp(a, t) == IF a >= t THEN 0 ELSE 1 + ShiftUp(2 * a, t)

\* The greatest j >= 0 with t * 2^j <= a (for a >= t).
RECURSIVE ShiftDown(_, _)
ShiftDown(a, t) == IF 2 * t > a THEN 0 ELSE 1 + ShiftDown(a, 2 * t)

\* n0 / d0 in binary64, for 1 <= n0 / d0 < 2, scaled by 2^(-s).
FDivNormal(n0, d0, s) ==
    Only({ RoundNearestEven(
               [hi  |-> HiMin + q[1] * Pow2(6) + q[2],
                mid |-> q[3] * Pow2(10) + q[4],
                lo  |-> q[5] * Pow2(10) + q[6],
                e   |-> 0 - 52 - s],
               IF 2 * q[7] > d0 THEN 1 ELSE IF 2 * q[7] = d0 THEN 0 ELSE -1) :
           q \in { DivDigits(n0 - d0, d0, << 6, 6, 10, 10, 10, 10 >>) } })

\* a / t in binary64, for integers a >= 0 and t > 0 below 2^20.
FDiv(a, t) ==
    IF a = 0 THEN DZero
    ELSE IF a < t
         THEN Only({ FDivNormal(a * Pow2(s), t, s) : s \in { ShiftUp(a, t) } })
         ELSE Only({ FDivNormal(a, t * Pow2(j), 0 - j) : j \in { ShiftDown(a, t) } })

\* x * k in binary64, for a double x >= 0 and an integer 64 <= k < 128.
FMul(x, k) ==
    IF x.hi = 0 THEN DZero
    ELSE LET p0   == x.lo * k
             p1   == x.mid * k + p0 \div Limb
             p2   == x.hi * k + p1 \div Limb
             l0   == p0 % Limb
             l1   == p1 % Limb
             drop == IF p2 >= Pow2(19) THEN 7 ELSE 6
             cut  == Pow2(drop)
             up   == Limb \div cut
             y    == [hi  |-> p2 \div cut,
                      mid |-> l1 \div cut + (p2 % cut) * up,
                      lo  |-> l0 \div cut + (l1 % cut) * up,
                      e   |-> x.e + drop]
             rest == l0 % cut
             cmp  == IF 2 * rest > cut THEN 1 ELSE IF 2 * rest = cut THEN 0 ELSE -1
         IN  Only({ RoundNearestEven(v, cmp) : v \in { y } })

\* The integer part of a double 0 <= x < 2^31.
FloorNat(x) ==
    LET k == 0 - x.e
    IN  IF x.hi = 0 THEN 0
        ELSE IF k >= 40 THEN (IF k - 40 > 13 THEN 0 ELSE x.hi \div Pow2(k - 40))
        ELSE x.hi * Pow2(40 - k) + x.mid \div Pow2(k - 20)

\* Whether a double 0 <= x < 2^31 is an integer.
IsWhole(x) ==
    LET k == 0 - x.e
    IN  IF x.hi = 0 THEN TRUE
        ELSE IF k >= 40
             THEN x.lo = 0 /\ x.mid = 0 /\ k - 40 <= 13 /\ x.hi % Pow2(k - 40) = 0
        ELSE x.lo = 0 /\ x.mid % Pow2(k - 20) = 0

\* x >= n and x < n for a double x >= 0 and an integer-valued double n.
GreaterEq(x, n) == IF n <= 0 THEN TRUE ELSE \E v \in { x } : FloorNat(v) >= n
LessThan(x, n) == ~GreaterEq(x, n)
\* x > n, likewise.
GreaterThan(x, n) ==
    IF n < 0 THEN TRUE
    ELSE \E v \in { x } : FloorNat(v) > n \/ (FloorNat(v) = n /\ ~IsWhole(v))

(***************************************************************************)
(* Attendance calculation functions.                                       *)
(***************************************************************************)
calculateCurrentPercentage(a, t) ==
    IF t = 0 THEN DZero ELSE Only({ FMul(q, Hundred) : q \in { FDiv(a, t) } })

\* Mutant of NeededEntry: the early return of line 24 is missing.
NeededEntryNoEarlyReturn ==
    /\ pc = "needed_entry"
    /\ classesToAttend' = 0
    /\ pc' = "needed_loop"
    /\ UNCHANGED needed
    /\ UNCHANGED << req, browser, page, launchCalls, scrapedData, errorMessage,
                    targetNum, idx, attended, total, targetPercentage,
                    bunkableClasses, bunks_available, results, response >>

\* classesNeededForTarget, lines 24-25: the early return, or the loop's set-up.
NeededEntry ==
    /\ pc = "needed_entry"
    /\ IF GreaterEq(calculateCurrentPercentage(attended, total), targetPercentage)
       THEN /\ needed' = 0
            /\ pc' = "bunk_entry"
            /\ UNCHANGED classesToAttend
       ELSE /\ classesToAttend' = 0
            /\ pc' = "needed_loop"
            /\ UNCHANGED needed
    /\ UNCHANGED << req, browser, page, launchCalls, scrapedData, errorMessage,
                    targetNum, idx, attended, total, targetPercentage,
                    bunkableClasses, bunks_available, results, response >>

\* Mutant of NeededIter: the test of line 30 is > instead of >=.
NeededIterStrict ==
    /\ pc = "needed_loop"
    /\ classesToAttend < MaxIter
    /\ classesToAttend' = classesToAttend + 1
    /\ IF GreaterThan(calculateCurrentPercentage(attended + classesToAttend',
                                                 total + classesToAttend'),
                      targetPercentage)
       THEN needed' = classesToAttend' /\ pc' = "bunk_entry"
       ELSE UNCHANGED << needed, pc >>
    /\ UNCHANGED << req, browser, page, launchCalls, scrapedData, errorMessage,
                    targetNum, idx, attended, total, targetPercentage,
                    bunkableClasses, bunks_available, results, response >>

\* classesNeededForTarget, lines 26-33: one iteration of while (true).
NeededIter ==
    /\ pc = "needed_loop"
    /\ classesToAttend < MaxIter
    /\ classesToAttend' = classesToAttend + 1
    /\ LET newAttended == attended + classesToAttend'
           newTotal    == total + classesToAttend'
       IN  IF GreaterEq(calculateCurrentPercentage(newAttended, newTotal),
                        targetPercentage)
           THEN needed' = classesToAttend' /\ pc' = "bunk_entry"
           ELSE UNCHANGED << needed, pc >>
    /\ UNCHANGED << req, browser, page, launchCalls, scrapedData, errorMessage,
                    targetNum, idx, attended, total, targetPercentage,
                    bunkableClasses, bunks_available, results, response >>

\* classesToBunk, lines 37-38: the early return, or the loop's set-up.
BunkEntry ==
    /\ pc = "bunk_entry"
    /\ IF LessThan(calculateCurrentPercentage(attended, total), targetPercentage)
       THEN /\ bunks_available' = 0
            /\ pc' = "record_done"
            /\ UNCHANGED bunkableClasses
       ELSE /\ bunkableClasses' = 0
            /\ pc' = "bunk_loop"
            /\ UNCHANGED bunks_available
    /\ UNCHANGED << req, browser, page, launchCalls, scrapedData, errorMessage,
                    targetNum, idx, attended, total, targetPercentage,
                    classesToAttend, needed, results, response >>

\* Mutant of BunkIter: line 40 tests total + bunkableClasses.
BunkIterNoPlusOne ==
    /\ pc = "bunk_loop"
    /\ bunkableClasses < MaxIter
    /\ LET newTotal == total + bunkableClasses
       IN  IF LessThan(calculateCurrentPercentage(attended, newTotal),
                       targetPercentage)
           THEN /\ bunks_available' = bunkableClasses
                /\ pc' = "record_done"
                /\ UNCHANGED bunkableClasses
           ELSE /\ bunkableClasses' = bunkableClasses + 1
                /\ UNCHANGED << bunks_available, pc >>
    /\ UNCHANGED << req, browser, page, launchCalls, scrapedData, errorMessage,
                    targetNum, idx, attended, total, targetPercentage,
                    classesToAttend, needed, results, response >>

\* Mutant of BunkIter: line 42 returns bunkableClasses + 1.
BunkIterReturnsNext ==
    /\ pc = "bunk_loop"
    /\ bunkableClasses < MaxIter
    /\ LET newTotal == total + bunkableClasses + 1
       IN  IF LessThan(calculateCurrentPercentage(attended, newTotal),
                       targetPercentage)
           THEN /\ bunks_available' = bunkableClasses + 1
                /\ pc' = "record_done"
                /\ UNCHANGED bunkableClasses
           ELSE /\ bunkableClasses' = bunkableClasses + 1
                /\ UNCHANGED << bunks_available, pc >>
    /\ UNCHANGED << req, browser, page, launchCalls, scrapedData, errorMessage,
                    targetNum, idx, attended, total, targetPercentage,
                    classesToAttend, needed, results, response >>

\* Mutant of BunkIter: line 40 leaves bunkableClasses out of newTotal.
BunkIterFixedTotal ==
    /\ pc = "bunk_loop"
    /\ bunkableClasses < MaxIter
    /\ LET newTotal == total + 1
       IN  IF LessThan(calculateCurrentPercentage(attended, newTotal),
                       targetPercentage)
           THEN /\ bunks_available' = bunkableClasses
                /\ pc' = "record_done"
                /\ UNCHANGED bunkableClasses
           ELSE /\ bunkableClasses' = bunkableClasses + 1
                /\ UNCHANGED << bunks_available, pc >>
    /\ UNCHANGED << req, browser, page, launchCalls, scrapedData, errorMessage,
                    targetNum, idx, attended, total, targetPercentage,
                    classesToAttend, needed, results, response >>

\* classesToBunk, lines 39-45: one iteration of while (true).
BunkIter ==
    /\ pc = "bunk_loop"
    /\ bunkableClasses < MaxIter
    /\ LET newTotal == total + bunkableClasses + 1
       IN  IF LessThan(calculateCurrentPercentage(attended, newTotal),
                       targetPercentage)
           THEN /\ bunks_available' = bunkableClasses
                /\ pc' = "record_done"
                /\ UNCHANGED bunkableClasses
           ELSE /\ bunkableClasses' = bunkableClasses + 1
                /\ UNCHANGED << bunks_available, pc >>
    /\ UNCHANGED << req, browser, page, launchCalls, scrapedData, errorMessage,
                    targetNum, idx, attended, total, targetPercentage,
                    classesToAttend, needed, results, response >>

(***************************************************************************)
(* The projection functions applied to enumerated arguments.               *)
(***************************************************************************)
\* Attendance records: 0 <= attended <= total <= n.
Records(n) == { r \in (0..n) \X (0..n) : r[1] <= r[2] }

\* Targets the functions are called with (integer-valued doubles).
Targets == { 1, 50, 75, 100, 101 }

\* The worked examples: <<attended, total, target>>.
Examples == { <<20, 30, 75>>, <<30, 35, 75>>, <<29, 50, 58>> }

NoResponse == [status |-> 0, error |-> FALSE, hasResults |-> FALSE,
               results |-> << >>, target |-> 0]
NoRequest == [username |-> "", password |-> "",
              target |-> [type |-> "undefined", num |-> 0, str |-> << >>]]

Init ==
    /\ \E a \in Records(MaxTotal) \X Targets \cup { <<<<x[1], x[2]>>, x[3]>> : x \in Examples } :
          /\ attended = a[1][1]
          /\ total = a[1][2]
          /\ targetPercentage = a[2]
    /\ pc \in { "needed_entry", "bunk_entry" }
    /\ classesToAttend = 0
    /\ bunkableClasses = 0
    /\ needed = NotReturned
    /\ bunks_available = NotReturned
    /\ req = NoRequest
    /\ browser = "null"
    /\ page = "null"
    /\ launchCalls = 0
    /\ scrapedData = << >>
    /\ errorMessage = FALSE
    /\ targetNum = 0
    /\ idx = 0
    /\ results = << >>
    /\ response = NoResponse

Next == NeededEntry \/ NeededIter \/ BunkEntry \/ BunkIter

Spec == Init /\ [][Next]_vars

\* A synchronous JavaScript loop keeps executing: no step that is possible
\* is postponed forever.
FairSpec == Spec /\ WF_vars(Next)

(***************************************************************************)
(* parseFloat and the effective target (line 175).                         *)
(* Strings are sequences of one-character strings.  The target inputs of   *)
(* the model hold digits, a sign, spaces and letters other than those of   *)
(* "Infinity": no fraction, no exponent.                                   *)
(***************************************************************************)
DefaultTarget == 75

Digits == << "0", "1", "2", "3", "4", "5", "6", "7", "8", "9" >>
IsDigit(c) == \E i \in 1..Len(Digits) : Digits[i] = c
DigitVal(c) == (CHOOSE i \in 1..Len(Digits) : Digits[i] = c) - 1

\* Number::toString of an integer.
RECURSIVE NatToString(_)
NatToString(n) ==
    IF n < 10 THEN << Digits[n + 1] >>
    ELSE Append(NatToString(n \div 10), Digits[(n % 10) + 1])
NumberToString(n) == IF n < 0 THEN << "-" >> \o NatToString(0 - n) ELSE NatToString(n)

\* ToString of the request's target.
ToString(v) ==
    CASE v.type = "undefined" -> << "u", "n", "d", "e", "f", "i", "n", "e", "d" >>
      [] v.type = "number"    -> NumberToString(v.num)
      [] v.type = "string"    -> v.str

RECURSIVE TrimStart(_)
TrimStart(s) == IF s # << >> /\ Head(s) = " " THEN TrimStart(Tail(s)) ELSE s

RECURSIVE DigitPrefix(_)
DigitPrefix(s) ==
    IF s # << >> /\ IsDigit(Head(s)) THEN << Head(s) >> \o DigitPrefix(Tail(s))
    ELSE << >>

RECURSIVE DecimalValue(_)
DecimalValue(ds) ==
    IF ds = << >> THEN 0
    ELSE 10 * DecimalValue(SubSeq(ds, 1, Len(ds) - 1)) + DigitVal(ds[Len(ds)])

\* parseFloat: the longest numeric prefix of the trimmed string, or NaN.
\* The result is [nan, val]; -0 is val 0.
parseFloat(v) ==
    LET s      == TrimStart(ToString(v))
        signed == s # << >> /\ Head(s) \in { "-", "+" }
        ds     == DigitPrefix(IF signed THEN Tail(s) ELSE s)
    IN  IF ds = << >> THEN [nan |-> TRUE, val |-> 0]
        ELSE [nan |-> FALSE,
              val |-> IF signed /\ Head(s) = "-" THEN 0 - DecimalValue(ds)
                      ELSE DecimalValue(ds)]

\* Mutant of EffectiveTarget: the default's digits are transposed.
EffectiveTargetWrongDefault(v) ==
    LET p == parseFloat(v)
    IN  IF p.nan \/ p.val = 0 THEN 57 ELSE p.val

\* parseFloat(target) || 75.0: NaN and 0 are falsy.
EffectiveTarget(v) ==
    LET p == parseFloat(v)
    IN  IF p.nan \/ p.val = 0 THEN DefaultTarget ELSE p.val

(***************************************************************************)
(* getAttendanceData (lines 49-155), one action per await.                 *)
(***************************************************************************)
\* The awaits between browser.newPage() and page.evaluate(), in order.
PageSteps == << "setViewport", "goto", "waitLoginButton", "typeUsername",
                "typePassword", "submitLogin", "waitAttendanceLink",
                "clickAttendance", "waitSubjectLink", "clickSubject",
                "waitTable" >>

ScrapePcs == { "launch", "newPage", "evaluate", "catch", "finally", "finally_throw" }
                 \cup { PageSteps[i] : i \in 1..Len(PageSteps) }

\* What page.evaluate can return: up to MaxSubjects subjects, in column
\* order, each with a record attended/total (3/4 is exactly 75%).
ScrapedRecords == Records(MaxScrapedTotal) \cup { << 3, 4 >> }
ScrapedTables ==
    UNION { [ 1..n -> ScrapedRecords ] : n \in 0..MaxSubjects }
TableToData(tbl) ==
    [ i \in 1..Len(tbl) |-> [subject |-> i, attended |-> tbl[i][1], total |-> tbl[i][2]] ]

\* Line 57: puppeteer.launch resolves or rejects.
Launch ==
    /\ pc = "launch"
    /\ launchCalls' = launchCalls + 1
    /\ \/ browser' = "open" /\ pc' = "newPage"
       \/ pc' = "catch" /\ UNCHANGED browser
    /\ UNCHANGED << req, page, scrapedData, errorMessage, targetNum, idx, attended,
                    total, targetPercentage, classesToAttend, bunkableClasses,
                    needed, bunks_available, results, response >>

\* Line 65: browser.newPage resolves or rejects.
NewPage ==
    /\ pc = "newPage"
    /\ \/ page' = "open" /\ pc' = PageSteps[1]
       \/ pc' = "catch" /\ UNCHANGED page
    /\ UNCHANGED << req, browser, launchCalls, scrapedData, errorMessage, targetNum,
                    idx, attended, total, targetPercentage, classesToAttend,
                    bunkableClasses, needed, bunks_available, results, response >>

\* Lines 66-110: one login / navigation await resolves or rejects.
PageStep ==
    /\ \E i \in 1..Len(PageSteps) :
          /\ pc = PageSteps[i]
          /\ \/ pc' = IF i < Len(PageSteps) THEN PageSteps[i + 1] ELSE "evaluate"
             \/ pc' = "catch"
    /\ UNCHANGED << req, browser, page, launchCalls, scrapedData, errorMessage,
                    targetNum, idx, attended, total, targetPercentage,
                    classesToAttend, bunkableClasses, needed, bunks_available,
                    results, response >>

\* Lines 114-136: page.evaluate returns the parsed table, or rejects.
Evaluate ==
    /\ pc = "evaluate"
    /\ \/ \E tbl \in ScrapedTables :
             /\ scrapedData' = TableToData(tbl)
             /\ pc' = "finally"
       \/ pc' = "catch" /\ UNCHANGED scrapedData
    /\ UNCHANGED << req, browser, page, launchCalls, errorMessage, targetNum, idx,
                    attended, total, targetPercentage, classesToAttend,
                    bunkableClasses, needed, bunks_available, results, response >>

\* Lines 138-146: the catch block; page.screenshot may itself reject.
Catch ==
    /\ pc = "catch"
    /\ errorMessage' = TRUE
    /\ IF page # "null"
       THEN pc' \in { "finally", "finally_throw" }
       ELSE pc' = "finally"
    /\ UNCHANGED << req, browser, page, launchCalls, scrapedData, targetNum, idx,
                    attended, total, targetPercentage, classesToAttend,
                    bunkableClasses, needed, bunks_available, results, response >>

\* Mutant of Finally: browser.close() sits after the try statement instead
\* of in its finally block, so a throw in the catch block skips it.
FinallyCloseAfterTry ==
    /\ pc \in { "finally", "finally_throw" }
    /\ IF browser = "open" /\ pc = "finally"
       THEN /\ browser' = "closed"
            /\ pc' \in { "returned", "rejected" }
       ELSE /\ pc' = IF pc = "finally" THEN "returned" ELSE "rejected"
            /\ UNCHANGED browser
    /\ UNCHANGED << req, page, launchCalls, scrapedData, errorMessage, targetNum,
                    idx, attended, total, targetPercentage, classesToAttend,
                    bunkableClasses, needed, bunks_available, results, response >>

\* Lines 147-154: the finally block, then the return (or the rethrow of what
\* the catch block or browser.close() threw).
Finally ==
    /\ pc \in { "finally", "finally_throw" }
    /\ IF browser # "null"
       THEN /\ browser' = "closed"
            /\ IF pc = "finally"
               THEN pc' \in { "returned", "rejected" }
               ELSE pc' = "rejected"
       ELSE /\ pc' = IF pc = "finally" THEN "returned" ELSE "rejected"
            /\ UNCHANGED browser
    /\ UNCHANGED << req, page, launchCalls, scrapedData, errorMessage, targetNum,
                    idx, attended, total, targetPercentage, classesToAttend,
                    bunkableClasses, needed, bunks_available, results, response >>

(***************************************************************************)
(* app.post('/api/attendance') (lines 158-190).                            *)
(***************************************************************************)
Undefined == "<undefined>"
Falsy(x) == x = Undefined \/ x = ""

ErrorResponse(code) ==
    [status |-> code, error |-> TRUE, hasResults |-> FALSE,
     results |-> << >>, target |-> 0]

\* Lines 159-165: the 400 answer, or the call of getAttendanceData.
HandleRequest ==
    /\ pc = "request"
    /\ IF Falsy(req.username) \/ Falsy(req.password)
       THEN response' = ErrorResponse(400) /\ pc' = "responded"
       ELSE pc' = "launch" /\ UNCHANGED response
    /\ UNCHANGED << req, browser, page, launchCalls, scrapedData, errorMessage,
                    targetNum, idx, attended, total, targetPercentage,
                    classesToAttend, bunkableClasses, needed, bunks_available,
                    results >>

\* Mutant of AfterScrape: the test of lines 171-173 is missing.
AfterScrapeNoEmptyCheck ==
    /\ pc = "returned"
    /\ IF errorMessage
       THEN /\ response' = ErrorResponse(500)
            /\ pc' = "responded"
            /\ UNCHANGED << targetNum, idx, attended, total, targetPercentage, results >>
       ELSE IF Len(scrapedData) = 0
       THEN /\ targetNum' = EffectiveTarget(req.target)
            /\ results' = << >>
            /\ response' = [status |-> 200, error |-> FALSE, hasResults |-> TRUE,
                            results |-> << >>, target |-> targetNum']
            /\ pc' = "responded"
            /\ UNCHANGED << idx, attended, total, targetPercentage >>
       ELSE /\ targetNum' = EffectiveTarget(req.target)
            /\ results' = << >>
            /\ idx' = 1
            /\ attended' = scrapedData[1].attended
            /\ total' = scrapedData[1].total
            /\ targetPercentage' = targetNum'
            /\ pc' = "needed_entry"
            /\ UNCHANGED response
    /\ UNCHANGED << req, browser, page, launchCalls, scrapedData, errorMessage,
                    classesToAttend, bunkableClasses, needed, bunks_available >>

\* Lines 165-184: getAttendanceData has returned; the two 500 answers, or
\* the effective target and the first subject's call of classesNeededForTarget.
AfterScrape ==
    /\ pc = "returned"
    /\ IF errorMessage \/ Len(scrapedData) = 0
       THEN /\ response' = ErrorResponse(500)
            /\ pc' = "responded"
            /\ UNCHANGED << targetNum, idx, attended, total, targetPercentage, results >>
       ELSE /\ targetNum' = EffectiveTarget(req.target)
            /\ results' = << >>
            /\ idx' = 1
            /\ attended' = scrapedData[1].attended
            /\ total' = scrapedData[1].total
            /\ targetPercentage' = targetNum'
            /\ pc' = "needed_entry"
            /\ UNCHANGED response
    /\ UNCHANGED << req, browser, page, launchCalls, scrapedData, errorMessage,
                    classesToAttend, bunkableClasses, needed, bunks_available >>

\* Lines 177-189: the subject's record is stored; the next subject's
\* projections start, or the 200 answer is sent.
StoreRecord ==
    /\ pc = "record_done"
    /\ results' = Append(results,
                         [subject         |-> scrapedData[idx].subject,
                          attended        |-> attended,
                          total           |-> total,
                          percentage      |-> calculateCurrentPercentage(attended, total),
                          needed          |-> needed,
                          bunks_available |-> bunks_available])
    /\ IF idx < Len(scrapedData)
       THEN /\ idx' = idx + 1
            /\ attended' = scrapedData[idx + 1].attended
            /\ total' = scrapedData[idx + 1].total
            /\ needed' = NotReturned
            /\ bunks_available' = NotReturned
            /\ pc' = "needed_entry"
            /\ UNCHANGED response
       ELSE /\ response' = [status |-> 200, error |-> FALSE, hasResults |-> TRUE,
                            results |-> results', target |-> targetNum]
            /\ pc' = "responded"
            /\ UNCHANGED << idx, attended, total, needed, bunks_available >>
    /\ UNCHANGED << req, browser, page, launchCalls, scrapedData, errorMessage,
                    targetNum, targetPercentage, classesToAttend, bunkableClasses >>

\* Request bodies of the model.
Str(s) == [type |-> "string", num |-> 0, str |-> s]
Num(n) == [type |-> "number", num |-> n, str |-> << >>]
TargetInputs ==
    { [type |-> "undefined", num |-> 0, str |-> << >>],
      Num(0), Num(80),
      Str(<< >>), Str(<< "a", "b", "c" >>), Str(<< "7", "5" >>), Str(<< "0" >>),
      Str(<< "6", "0" >>), Str(<< "1", "0", "0" >>), Str(<< "-", "5" >>),
      Str(<< " ", "5", "0" >>), Str(<< "9", "0", "x" >>) }
Credentials == { Undefined, "", "student" }

HandlerInit ==
    /\ req \in [username : Credentials, password : Credentials, target : TargetInputs]
    /\ pc = "request"
    /\ browser = "null"
    /\ page = "null"
    /\ launchCalls = 0
    /\ scrapedData = << >>
    /\ errorMessage = FALSE
    /\ targetNum = 0
    /\ idx = 0
    /\ attended = 0
    /\ total = 0
    /\ targetPercentage = 0
    /\ classesToAttend = 0
    /\ bunkableClasses = 0
    /\ needed = NotReturned
    /\ bunks_available = NotReturned
    /\ results = << >>
    /\ response = NoResponse

HandlerNext ==
    \/ HandleRequest
    \/ Launch
    \/ NewPage
    \/ PageStep
    \/ Evaluate
    \/ Catch
    \/ Finally
    \/ AfterScrape
    \/ NeededEntry
    \/ NeededIter
    \/ BunkEntry
    \/ BunkIter
    \/ StoreRecord

HandlerSpec == HandlerInit /\ [][HandlerNext]_vars

(***************************************************************************)
(* Properties of the projection functions (under Spec and FairSpec).       *)
(***************************************************************************)
Pct(a, t) == calculateCurrentPercentage(a, t)

InRange == 0 <= attended /\ attended <= total

\* The iteration bound is reached only by calls that never return: the
\* needed-loop with target >= 100, the bunk-loop with target <= 0 (an
\* invariant of Spec and of HandlerSpec).
LoopsReturnWithinMaxIter ==
    /\ (pc = "needed_loop" /\ classesToAttend = MaxIter) => targetPercentage >= 100
    /\ (pc = "bunk_loop" /\ bunkableClasses = MaxIter) => targetPercentage <= 0

\* With target 100 and attended < total the exit test of the needed-loop
\* fails at the next iteration and still fails thousands and a million
\* iterations on: (attended + k) / (total + k) stays below 1.
FarIterations == { 1000, 100000, 1000000 }
NeededLoopNeverMeetsHundred ==
    (pc = "needed_loop" /\ targetPercentage = 100 /\ attended < total) =>
        \A k \in { classesToAttend + 1 } \cup FarIterations :
            LessThan(Pct(attended + k, total + k), 100)

\* C1: when classesNeededForTarget returns, its result is the smallest
\* k >= 0 with calculateCurrentPercentage(attended + k, total + k) >= target;
\* it is 0 when the current percentage already meets the target (>=, not >),
\* and classesNeededForTarget(20, 30, 75) = 10.
C1_NeededIsSmallest ==
    (needed # NotReturned /\ InRange) =>
        /\ needed >= 0
        /\ GreaterEq(Pct(attended + needed, total + needed), targetPercentage)
        /\ \A j \in 0..(needed - 1) :
              LessThan(Pct(attended + j, total + j), targetPercentage)
        /\ GreaterEq(Pct(attended, total), targetPercentage) => needed = 0
        /\ (attended = 20 /\ total = 30 /\ targetPercentage = 75) => needed = 10

\* C1 witness: classesNeededForTarget(20, 30, 75) has returned 10, and
\* 30/40 is exactly 75%: the boundary case of >=.
C1_Witness ==
    /\ attended = 20 /\ total = 30 /\ targetPercentage = 75
    /\ needed = 10
    /\ FloorNat(Pct(30, 40)) = 75 /\ IsWhole(Pct(30, 40))

BunkPre ==
    /\ bunks_available # NotReturned
    /\ InRange
    /\ targetPercentage > 0
    /\ GreaterEq(Pct(attended, total), targetPercentage)

\* C2 as stated: classesToBunk returns the largest b >= 0 such that
\* calculateCurrentPercentage(attended, total + b + 1) >= target, and
\* classesToBunk(30, 35, 75) = 4.
C2_BunkTestsTotalPlusBPlusOne ==
    BunkPre =>
        /\ GreaterEq(Pct(attended, total + bunks_available + 1), targetPercentage)
        /\ LessThan(Pct(attended, total + bunks_available + 2), targetPercentage)
        /\ (attended = 30 /\ total = 35 /\ targetPercentage = 75)
              => bunks_available = 4

\* C2 amended: classesToBunk returns the largest b >= 0 such that
\* calculateCurrentPercentage(attended, total + b) >= target (every b' <= b
\* meets the target, no b' in b+1 .. b+Lookahead does), and
\* classesToBunk(30, 35, 75) = 5.
C2_BunkIsLargestKeepingTarget ==
    BunkPre =>
        /\ bunks_available >= 0
        /\ \A j \in 0..bunks_available :
              GreaterEq(Pct(attended, total + j), targetPercentage)
        /\ \A j \in (bunks_available + 1)..(bunks_available + Lookahead) :
              LessThan(Pct(attended, total + j), targetPercentage)
        /\ (attended = 30 /\ total = 35 /\ targetPercentage = 75)
              => bunks_available = 5

\* C2 witness: classesToBunk(30, 35, 75) has returned 5.
C2_Witness ==
    /\ attended = 30 /\ total = 35 /\ targetPercentage = 75
    /\ bunks_available = 5

\* C3 as stated: classesNeededForTarget returns for every record
\* 0 <= attended <= total and every target <= 100, target = 100 included.
C3_NeededTerminates ==
    []((pc \in {"needed_entry", "needed_loop"} /\ InRange /\ targetPercentage <= 100)
          => <>(needed # NotReturned))

C5_BunkKeepsTarget ==
    BunkPre =>
        /\ GreaterEq(Pct(attended, total + bunks_available), targetPercentage)
        /\ LessThan(Pct(attended, total + bunks_available + 1), targetPercentage)

\* C5 witness: classesToBunk(3, 3, 50) has returned 3 (3/6 is 50%, 3/7 is not).
C5_Witness ==
    /\ attended = 3 /\ total = 3 /\ targetPercentage = 50
    /\ bunks_available = 3
    /\ GreaterEq(Pct(3, 6), 50) /\ LessThan(Pct(3, 7), 50)

(***************************************************************************)
(* Properties of the handler (under HandlerSpec).                          *)
(***************************************************************************)
ProjectionPcs == { "needed_entry", "needed_loop", "bunk_entry", "bunk_loop",
                   "record_done" }

\* What the search of classesNeededForTarget / classesToBunk arrives at,
\* stated directly (for targets for which a result exists within MaxIter).
SmallestNeeded(a, t, target) ==
    CHOOSE k \in 0..MaxIter :
        /\ GreaterEq(Pct(a + k, t + k), target)
        /\ \A j \in 0..(k - 1) : LessThan(Pct(a + j, t + j), target)
LargestBunk(a, t, target) ==
    IF LessThan(Pct(a, t), target) THEN 0
    ELSE CHOOSE b \in 0..MaxIter :
            /\ LessThan(Pct(a, t + b + 1), target)
            /\ \A j \in 0..b : GreaterEq(Pct(a, t + j), target)

\* C6: a scrape that ends without an error and with zero subjects is answered
\* with status 500 and no results; every 200 answer carries at least one
\* subject.
C6_EmptyScrapeIsError ==
    /\ (pc = "responded" /\ launchCalls > 0 /\ ~errorMessage /\ Len(scrapedData) = 0)
          => (response.status = 500 /\ response.error /\ ~response.hasResults)
    /\ response.status = 200
          => (response.hasResults /\ Len(response.results) >= 1
              /\ Len(response.results) = Len(scrapedData))

\* C6 witness: the scrape returned no error and no subject, and the handler
\* has answered.
C6_Witness ==
    /\ pc = "responded"
    /\ launchCalls = 1 /\ browser = "closed"
    /\ ~errorMessage /\ Len(scrapedData) = 0
    /\ response.status = 500

\* C7: when the request's target is absent or parseFloat gives NaN for it,
\* the projections run with target 75, the 200 answer carries target 75 and
\* each subject's needed and bunks_available are those of target 75, and a
\* 500 answer is due to the scrape (an error, or no subject) only.
C7_DefaultTargetUsed ==
    parseFloat(req.target).nan =>
        /\ pc \in ProjectionPcs => (targetNum = 75 /\ targetPercentage = 75)
        /\ response.status = 200 =>
              /\ response.target = 75
              /\ \A i \in 1..Len(response.results) :
                    LET r == response.results[i]
                    IN  /\ r.needed = SmallestNeeded(r.attended, r.total, 75)
                        /\ r.bunks_available = LargestBunk(r.attended, r.total, 75)
        /\ response.status = 500 => (errorMessage \/ Len(scrapedData) = 0)

\* C7 witness: a request without target has been answered 200 with target 75
\* and a subject that needs classes.
C7_Witness ==
    /\ req.target.type = "undefined"
    /\ response.status = 200
    /\ response.target = 75
    /\ \E i \in 1..Len(response.results) : response.results[i].needed > 0

\* C8 as stated: every target input that parses to a number in [0, 100] is
\* the effective target of the projections and of the answer.
C8_ParsedTargetIsKept ==
    LET p == parseFloat(req.target)
    IN  (~p.nan /\ 0 <= p.val /\ p.val <= 100) =>
            /\ pc \in ProjectionPcs => (targetNum = p.val /\ targetPercentage = p.val)
            /\ response.status = 200 => response.target = p.val

\* C9: in every record the handler produces, needed and bunks_available are
\* not both nonzero: needed > 0 only below the target, bunks_available > 0
\* only at or above it.
C9_NeededAndBunksExclusive ==
    \A i \in 1..Len(results) :
        LET r == results[i]
            p == Pct(r.attended, r.total)
        IN  /\ ~(r.needed > 0 /\ r.bunks_available > 0)
            /\ r.needed > 0 => LessThan(p, targetNum)
            /\ r.bunks_available > 0 => GreaterEq(p, targetNum)

\* C9 witness: a 200 answer with one subject that needs classes and one that
\* can bunk.
C9_Witness ==
    /\ response.status = 200
    /\ Len(results) = 2
    /\ results[1].needed > 0 /\ results[1].bunks_available = 0
    /\ results[2].needed = 0 /\ results[2].bunks_available > 0

\* C10: once getAttendanceData has returned or rejected, a browser that was
\* launched has had close() called, so no answer is sent with the browser
\* open; a 400 answer is sent without any launch.
C10_BrowserClosedBeforeReturn ==
    /\ (pc \notin ScrapePcs \cup { "request" }) => browser # "open"
    /\ response.status # 0 => browser # "open"
    /\ response.status = 400 => (launchCalls = 0 /\ browser = "null")
    /\ launchCalls = 0 => browser = "null"

\* C10 witness: the catch block ran with a page open and getAttendanceData
\* rejected (the screenshot or close() threw), with close() called.
C10_Witness ==
    /\ pc = "rejected"
    /\ page = "open"
    /\ errorMessage
    /\ browser = "closed"

====
